---------------------------- MODULE Spec2Model ----------------------------
(***************************************************************************)
(* nextjs-centralized-error-handler: the error taxonomy                    *)
(* (src/customErrors.js) and the wrapping dispatcher                        *)
(* (src/errorHandler.js), as a state machine over invocations of one       *)
(* wrapped handler.                                                         *)
(*                                                                         *)
(* JavaScript values are tagged records: t is the typeof-like tag, and     *)
(* objects carry cls (the constructor at the bottom of their prototype     *)
(* chain) and their properties.  A property an object does not have reads  *)
(* as Undefined; reading a property of null or undefined is a TypeError.   *)
(***************************************************************************)
EXTENDS Integers, Sequences, FiniteSets, TLC

VARIABLES options, calls, ncalls, constructed

vars == <<options, calls, ncalls, constructed>>

(* How many times the wrapped handler is invoked in one behaviour. *)
MaxCalls == 2

-----------------------------------------------------------------------------
(* JavaScript values *)

Undefined == [t |-> "undefined"]
Null == [t |-> "null"]
Str(s) == [t |-> "string", v |-> s]
Num(n) == [t |-> "number", v |-> n]
Bool(b) == [t |-> "boolean", v |-> b]
Fn(impl) == [t |-> "function", impl |-> impl]

IsNullish(v) == v.t \in {"undefined", "null"}

(* ToBoolean: what `a && b`, `a || b` and `if (a)` test. *)
Truthy(v) ==
  CASE v.t \in {"undefined", "null"} -> FALSE
    [] v.t = "string" -> v.v # ""
    [] v.t = "number" -> v.v # 0
    [] v.t = "boolean" -> v.v
    [] OTHER -> TRUE

(* a || b *)
Or(a, b) == IF Truthy(a) THEN a ELSE b

(* typeof v *)
TypeOf(v) == IF v.t = "null" THEN "object" ELSE v.t

(* A defaulted parameter or destructured field: the default applies to     *)
(* undefined only, never to null or to another falsy value.                 *)
Default(v, d) == IF v.t = "undefined" THEN d ELSE v

(* Property reads of a value that is neither null nor undefined. *)
PropOf(v, p) ==
  IF v.t = "object" /\ p \in DOMAIN v THEN v[p] ELSE Undefined

-----------------------------------------------------------------------------
(* The error taxonomy, src/customErrors.js *)

(* class X extends Y *)
SuperClass ==
  [Object |-> "Object",
   Error |-> "Object",
   TypeError |-> "Error",
   CustomError |-> "Error",
   BadRequestError |-> "CustomError",
   UnauthorizedError |-> "CustomError",
   PaymentRequiredError |-> "CustomError",
   ForbiddenError |-> "CustomError",
   NotFoundError |-> "CustomError",
   MethodNotAllowedError |-> "CustomError",
   NotAcceptableError |-> "CustomError",
   RequestTimeoutError |-> "CustomError",
   ConflictError |-> "CustomError",
   PayloadTooLargeError |-> "CustomError",
   TooManyRequestsError |-> "CustomError",
   InternalServerError |-> "CustomError",
   NotImplementedError |-> "CustomError",
   BadGatewayError |-> "CustomError",
   ServiceUnavailableError |-> "CustomError",
   GatewayTimeoutError |-> "CustomError",
   HTTPVersionNotSupportedError |-> "CustomError",
   VariantAlsoNegotiatesError |-> "CustomError",
   InsufficientStorageError |-> "CustomError",
   BandwidthLimitExceededError |-> "CustomError",
   NetworkAuthenticationRequiredError |-> "CustomError",
   ConsumerConflictError |-> "CustomError"]

RECURSIVE ProtoChain(_)
ProtoChain(cls) ==
  IF cls = "Object" THEN {"Object"} ELSE {cls} \cup ProtoChain(SuperClass[cls])

(* instanceof decided from a closed list of the package's own classes     *)
(* instead of the prototype chain.                                          *)
InstanceOf_ClosedList(v, cls) ==
  /\ v.t = "object"
  /\ "cls" \in DOMAIN v
  /\ v.cls \in {"CustomError", "BadRequestError", "NotFoundError",
                "ConflictError"}
  /\ cls \in ProtoChain(v.cls)

(* v instanceof cls *)
InstanceOf(v, cls) == v.t = "object" /\ "cls" \in DOMAIN v /\ cls \in ProtoChain(v.cls)

(* new Error(message), with the properties the dispatcher reads *)
ErrorObject(cls, name, message, statusCode) ==
  [t |-> "object", cls |-> cls, name |-> name, message |-> message,
   statusCode |-> statusCode]

(* The CustomError constructor run for an instance of class cls. *)
CustomErrorAs(cls, message, statusCode, name) ==
  ErrorObject(cls,
              Default(name, Str("CustomError")),
              Default(message, Str("An error occurred.")),
              Default(statusCode, Num(500)))

(* CustomError with each default applied by ||, so that an empty message, *)
(* a zero status code or an empty name is replaced as well.                 *)
CustomError_OrDefaults(message, statusCode, name) ==
  ErrorObject("CustomError",
              Or(name, Str("CustomError")),
              Or(message, Str("An error occurred.")),
              Or(statusCode, Num(500)))

(* new CustomError(message, statusCode, name) *)
CustomError(message, statusCode, name) ==
  CustomErrorAs("CustomError", message, statusCode, name)

(* The predefined subclasses: fixed status code and default message. *)
Predefined ==
  [BadRequestError |-> [statusCode |-> 400, message |->
     "It seems there was an error with your request. Please check the data you entered and try again."],
   UnauthorizedError |-> [statusCode |-> 401, message |->
     "Unauthorized access. Please log in again."],
   PaymentRequiredError |-> [statusCode |-> 402, message |->
     "Payment is required to access this resource."],
   ForbiddenError |-> [statusCode |-> 403, message |-> "Access denied."],
   NotFoundError |-> [statusCode |-> 404, message |->
     "The requested resource was not found."],
   MethodNotAllowedError |-> [statusCode |-> 405, message |->
     "The HTTP method used is not allowed for this resource."],
   NotAcceptableError |-> [statusCode |-> 406, message |->
     "The requested resource is not available in a format acceptable to your browser."],
   RequestTimeoutError |-> [statusCode |-> 408, message |->
     "The server timed out waiting for your request."],
   ConflictError |-> [statusCode |-> 409, message |->
     "A conflict occurred with the current state of the resource."],
   PayloadTooLargeError |-> [statusCode |-> 413, message |->
     "The request payload is too large."],
   TooManyRequestsError |-> [statusCode |-> 429, message |->
     "You have made too many requests in a short period of time."],
   InternalServerError |-> [statusCode |-> 500, message |->
     "An internal server error occurred. Please try again later."],
   NotImplementedError |-> [statusCode |-> 501, message |->
     "This functionality has not been implemented."],
   BadGatewayError |-> [statusCode |-> 502, message |->
     "Received an invalid response from the upstream server."],
   ServiceUnavailableError |-> [statusCode |-> 503, message |->
     "The service is currently unavailable."],
   GatewayTimeoutError |-> [statusCode |-> 504, message |->
     "The upstream server failed to send a request in time."],
   HTTPVersionNotSupportedError |-> [statusCode |-> 505, message |->
     "The server does not support the HTTP protocol version used in the request."],
   VariantAlsoNegotiatesError |-> [statusCode |-> 506, message |->
     "Variant Also Negotiates."],
   InsufficientStorageError |-> [statusCode |-> 507, message |->
     "The server is unable to store the representation needed to complete the request."],
   BandwidthLimitExceededError |-> [statusCode |-> 509, message |->
     "Bandwidth limit exceeded."],
   NetworkAuthenticationRequiredError |-> [statusCode |-> 511, message |->
     "Network authentication is required to access this resource."]]

PredefinedKinds == DOMAIN Predefined

(* NewPredefined with the shorter default messages of the README's        *)
(* examples for three of the kinds.                                         *)
NewPredefined_ReadmeDefaults(kind, message) ==
  LET default ==
        IF kind = "MethodNotAllowedError" THEN "Method not allowed"
        ELSE IF kind = "UnauthorizedError"
             THEN "Unauthorized access. Please log in."
        ELSE IF kind = "PayloadTooLargeError" THEN "Request entity too large"
        ELSE Predefined[kind].message
  IN CustomErrorAs(kind, Default(message, Str(default)),
                   Num(Predefined[kind].statusCode), Str(kind))

(* NewPredefined with no default message of its own: the base class's     *)
(* default applies.                                                         *)
NewPredefined_NoDefault(kind, message) ==
  CustomErrorAs(kind, message, Num(Predefined[kind].statusCode), Str(kind))

(* new <kind>(message): constructor(message = <default>) {                  *)
(*   super(message, <status>, '<kind>') }                                   *)
NewPredefined(kind, message) ==
  CustomErrorAs(kind,
                Default(message, Str(Predefined[kind].message)),
                Num(Predefined[kind].statusCode),
                Str(kind))

(* The i-th argument of a call made with the argument list args: a        *)
(* parameter with no argument is undefined, an argument with no parameter  *)
(* is dropped.                                                              *)
Arg(args, i) == IF i <= Len(args) THEN args[i] ELSE Undefined

(* A kind a consumer defines outside the package, as the README shows:     *)
(* class ConflictError extends CustomError {                                *)
(*   constructor(message = 'Resource conflict occurred.') {                 *)
(*     super(message, 409, 'ConflictError') } }                             *)
NewConsumerConflictError(message) ==
  CustomErrorAs("ConsumerConflictError",
                Default(message, Str("Resource conflict occurred.")),
                Num(409),
                Str("ConflictError"))

(* new CustomError(...args): the base constructor takes three parameters. *)
ConstructCustomError(args) ==
  CustomError(Arg(args, 1), Arg(args, 2), Arg(args, 3))

(* ConstructPredefined with every argument handed on to the base class. *)
ConstructPredefined_Forwarding(kind, args) ==
  CustomErrorAs(kind,
                Default(Arg(args, 1), Str(Predefined[kind].message)),
                Default(Arg(args, 2), Num(Predefined[kind].statusCode)),
                Default(Arg(args, 3), Str(kind)))

(* new <kind>(...args): the constructor of a predefined subclass takes one *)
(* parameter, message.                                                      *)
ConstructPredefined(kind, args) == NewPredefined(kind, Arg(args, 1))

(* new ConflictError(...args) for the consumer's class *)
ConstructConsumerConflictError(args) == NewConsumerConflictError(Arg(args, 1))

(* new <cls>(...args) for any class of the taxonomy *)
Construct(cls, args) ==
  IF cls = "CustomError" THEN ConstructCustomError(args)
  ELSE IF cls = "ConsumerConflictError"
       THEN ConstructConsumerConflictError(args)
       ELSE ConstructPredefined(cls, args)

-----------------------------------------------------------------------------
(* JSON.stringify and Response, as the dispatcher uses them *)

(* The own enumerable keys of the bodies the dispatcher serializes, in      *)
(* insertion order: the default envelope { error: { message, type } }, the  *)
(* fallback { message, type }, and what the formatter returns.              *)
KeysOf(v) ==
  CASE "error" \in DOMAIN v -> <<"error">>
    [] "errorMessage" \in DOMAIN v -> <<"errorMessage", "errorType", "requestId">>
    [] "message" \in DOMAIN v -> <<"message", "type">>
    [] OTHER -> <<>>

RECURSIVE JsonText(_)
RECURSIVE JsonMembers(_, _, _)

(* The members of object v for the keys ks; a member whose value is        *)
(* undefined or a function is left out.                                     *)
JsonMembers(v, ks, first) ==
  IF ks = <<>> THEN ""
  ELSE IF v[Head(ks)].t \in {"undefined", "function"}
       THEN JsonMembers(v, Tail(ks), first)
       ELSE (IF first THEN "" ELSE ",")
            \o "\"" \o Head(ks) \o "\":" \o JsonText(v[Head(ks)])
            \o JsonMembers(v, Tail(ks), FALSE)

JsonText(v) ==
  CASE v.t = "null" -> "null"
    [] v.t = "string" -> "\"" \o v.v \o "\""
    [] v.t = "number" -> ToString(v.v)
    [] v.t = "boolean" -> IF v.v THEN "true" ELSE "false"
    [] OTHER -> "{" \o JsonMembers(v, KeysOf(v), TRUE) \o "}"

(* JSON.stringify(v): undefined for undefined and for a function. *)
JSONStringify(v) ==
  IF v.t \in {"undefined", "function"} THEN Undefined ELSE Str(JsonText(v))

(* new Response(body, { status, headers: { 'Content-Type': contentType } }) *)
(* read back as the tests read it: status, headers.get('Content-Type'),     *)
(* text().  A null or undefined body is an empty body.                      *)
NewResponse(body, status, contentType) ==
  [t |-> "object", cls |-> "Response",
   status |-> status,
   contentType |-> IF contentType.t # "undefined" THEN contentType
                   ELSE IF body.t = "string" THEN Str("text/plain;charset=UTF-8")
                   ELSE Null,
   body |-> IF IsNullish(body) THEN Str("") ELSE body]

-----------------------------------------------------------------------------
(* The options of errorHandler(handler, options) and the callbacks *)

ConsoleError == Fn("console.error")

(* const { logger = console.error, defaultStatusCode = 500,                 *)
(*         defaultMessage = '...', formatError = null } = options           *)
logger(o) == Default(o.logger, ConsoleError)
defaultStatusCode(o) == Default(o.defaultStatusCode, Num(500))
defaultMessage(o) ==
  Default(o.defaultMessage,
          Str("An internal server error occurred. Please try again later."))
formatError(o) == Default(o.formatError, Null)

(* Calling a value that is not a function is a TypeError. *)
NotCallableError ==
  ErrorObject("TypeError", Str("TypeError"), Str("is not a function"), Undefined)

(* What calling a logger does: "throwingLogger" is a logger that throws;    *)
(* console.error and "mockLogger" return.                                   *)
LoggerException ==
  ErrorObject("Error", Str("Error"), Str("log transport down"), Undefined)

LoggerThrows(fn) ==
  IF TypeOf(fn) = "function" THEN fn.impl = "throwingLogger" ELSE TRUE

LoggerThrown(fn) ==
  IF TypeOf(fn) = "function" THEN LoggerException ELSE NotCallableError

(* What calling a formatter does.  "formatError" is the formatter of the    *)
(* tests: (error, req) => ({ errorMessage: error.message,                   *)
(*   errorType: error.name, requestId: req.headers['x-request-id'] }),      *)
(* which fails on an error whose properties cannot be read;                 *)
(* "throwingFormatter" always throws.                                       *)
FormatterException ==
  ErrorObject("Error", Str("Error"), Str("formatter failed"), Undefined)

FormatterThrows(fn, error) ==
  IF TypeOf(fn) = "function"
  THEN fn.impl = "throwingFormatter" \/ IsNullish(error)
  ELSE TRUE

FormatterThrown(fn) ==
  IF TypeOf(fn) = "function" THEN FormatterException ELSE NotCallableError

FormatterReturn(fn, error, req) ==
  [t |-> "object", cls |-> "Object",
   errorMessage |-> PropOf(error, "message"),
   errorType |-> PropOf(error, "name"),
   requestId |-> PropOf(req, "requestId")]

-----------------------------------------------------------------------------
(* The wrapped handler, src/errorHandler.js lines 71-159 *)

(* res && typeof res.status === 'function' *)
IsApiRoute(res) ==
  IF Truthy(res) THEN TypeOf(PropOf(res, "status")) = "function" ELSE FALSE

(* logMessage with one label for both conventions. *)
logMessage_OneLabel(res) == "Route Error:"

(* const logMessage = res && typeof res.status === 'function'               *)
(*   ? 'API Route Error:' : 'Route Error:'                                  *)
logMessage(res) ==
  IF IsApiRoute(res) THEN "API Route Error:" ELSE "Route Error:"

(* if (typeof logger === 'function') *)
LoggerIsCallable(l) == TypeOf(l) = "function"

(* LogStage with the logger called outside any try: its exception leaves   *)
(* the statement.                                                           *)
LogStage_NoTry(o, res, error) ==
  IF LoggerIsCallable(logger(o))
  THEN [loggerCalls |-> <<[fn |-> logger(o), label |-> logMessage(res),
                           error |-> error]>>,
        consoleCalls |-> <<>>,
        trace |-> <<"logger">>,
        exc |-> IF LoggerThrows(logger(o))
                THEN <<LoggerThrown(logger(o))>> ELSE <<>>]
  ELSE [loggerCalls |-> <<>>, consoleCalls |-> <<>>, trace |-> <<>>,
        exc |-> <<>>]

(* if (typeof logger === 'function') { try { logger(logMessage, error) }    *)
(*   catch (loggerError) { console.error('Logging failed:', loggerError) } } *)
(* exc is the exception that leaves the statement, if any: none, since the  *)
(* call is inside try/catch.                                                *)
LogStage(o, res, error) ==
  IF LoggerIsCallable(logger(o))
  THEN [loggerCalls |-> <<[fn |-> logger(o), label |-> logMessage(res),
                           error |-> error]>>,
        consoleCalls |-> IF LoggerThrows(logger(o))
                         THEN <<[label |-> "Logging failed:",
                                 error |-> LoggerThrown(logger(o))]>>
                         ELSE <<>>,
        trace |-> IF LoggerThrows(logger(o))
                  THEN <<"logger", "console.error">> ELSE <<"logger">>,
        exc |-> <<>>]
  ELSE [loggerCalls |-> <<>>, consoleCalls |-> <<>>, trace |-> <<>>,
        exc |-> <<>>]

(* let statusCode = defaultStatusCode;                                      *)
(* if (error instanceof CustomError) statusCode = error.statusCode          *)
ClassifyStatusCode(o, error) ==
  IF InstanceOf(error, "CustomError")
  THEN PropOf(error, "statusCode")
  ELSE defaultStatusCode(o)

(* ClassifyMessage with no fallback for a known error's empty message. *)
ClassifyMessage_NoFallback(o, error) ==
  IF InstanceOf(error, "CustomError")
  THEN PropOf(error, "message")
  ELSE defaultMessage(o)

(* ClassifyMessage as the first version of the dispatcher computed it: the *)
(* message of a known error is dropped when its status code is 500.         *)
ClassifyMessage_StatusGated(o, error) ==
  IF InstanceOf(error, "CustomError")
  THEN IF PropOf(error, "statusCode") = Num(500)
       THEN defaultMessage(o)
       ELSE Or(PropOf(error, "message"), defaultMessage(o))
  ELSE defaultMessage(o)

(* let message = defaultMessage;                                            *)
(* if (error instanceof CustomError)                                        *)
(*   message = error.message || defaultMessage                              *)
ClassifyMessage(o, error) ==
  IF InstanceOf(error, "CustomError")
  THEN Or(PropOf(error, "message"), defaultMessage(o))
  ELSE defaultMessage(o)

(* Reading error.name of null or undefined is a TypeError. *)
NameReadError ==
  ErrorObject("TypeError", Str("TypeError"),
              Str("Cannot read properties of null or undefined (reading 'name')"),
              Undefined)

(* type: error.name || 'Error'.  exc is the exception the expression        *)
(* raises, if any; it is evaluated outside any try of the catch block.      *)
ErrorType(error) ==
  IF IsNullish(error)
  THEN [type |-> Undefined, exc |-> <<NameReadError>>]
  ELSE [type |-> Or(PropOf(error, "name"), Str("Error")), exc |-> <<>>]

(* let errorResponse = { error: { message, type: error.name || 'Error' } } *)
DefaultEnvelope(message, type) ==
  [t |-> "object", cls |-> "Object",
   error |-> [t |-> "object", cls |-> "Object",
              message |-> message, type |-> type]]

(* FallbackEnvelope with the outer error wrapper of the default envelope. *)
FallbackEnvelope_Wrapped(message, type) == DefaultEnvelope(message, type)

(* errorResponse = { message, type: error.name || 'Error' } *)
FallbackEnvelope(message, type) ==
  [t |-> "object", cls |-> "Object", message |-> message, type |-> type]

(* FormatterIsCallable without the typeof test. *)
FormatterIsCallable_TruthyOnly(f) == Truthy(f)

(* if (formatError && typeof formatError === 'function') *)
FormatterIsCallable(f) ==
  IF Truthy(f) THEN TypeOf(f) = "function" ELSE FALSE

(* FormatStage with the formatter's return value nested in the default     *)
(* wrapper instead of replacing the envelope.                               *)
FormatStage_Nested(o, error, req, message, envelope) ==
  IF FormatterIsCallable(formatError(o))
  THEN IF FormatterThrows(formatError(o), error)
       THEN [errorResponse |-> FallbackEnvelope(message, ErrorType(error).type),
             formatCalls |-> <<[error |-> error, req |-> req]>>,
             consoleCalls |-> <<[label |-> "formatError failed:",
                                 error |-> FormatterThrown(formatError(o))]>>,
             trace |-> <<"formatError", "console.error">>,
             exc |-> ErrorType(error).exc]
       ELSE [errorResponse |->
               [t |-> "object", cls |-> "Object",
                error |-> FormatterReturn(formatError(o), error, req)],
             formatCalls |-> <<[error |-> error, req |-> req]>>,
             consoleCalls |-> <<>>,
             trace |-> <<"formatError">>,
             exc |-> <<>>]
  ELSE [errorResponse |-> envelope,
        formatCalls |-> <<>>, consoleCalls |-> <<>>, trace |-> <<>>,
        exc |-> <<>>]

(* if (formatError && typeof formatError === 'function') {                  *)
(*   try { errorResponse = formatError(error, req) }                        *)
(*   catch (formatErrorException) {                                         *)
(*     console.error('formatError failed:', formatErrorException);          *)
(*     errorResponse = { message, type: error.name || 'Error' } } }         *)
(* envelope is the errorResponse built at lines 120-125.                    *)
FormatStage(o, error, req, message, envelope) ==
  IF FormatterIsCallable(formatError(o))
  THEN IF FormatterThrows(formatError(o), error)
       THEN [errorResponse |-> FallbackEnvelope(message, ErrorType(error).type),
             formatCalls |-> <<[error |-> error, req |-> req]>>,
             consoleCalls |-> <<[label |-> "formatError failed:",
                                 error |-> FormatterThrown(formatError(o))]>>,
             trace |-> <<"formatError", "console.error">>,
             exc |-> ErrorType(error).exc]
       ELSE [errorResponse |-> FormatterReturn(formatError(o), error, req),
             formatCalls |-> <<[error |-> error, req |-> req]>>,
             consoleCalls |-> <<>>,
             trace |-> <<"formatError">>,
             exc |-> <<>>]
  ELSE [errorResponse |-> envelope,
        formatCalls |-> <<>>, consoleCalls |-> <<>>, trace |-> <<>>,
        exc |-> <<>>]

Fulfilled(v) == [state |-> "fulfilled", value |-> v]
Rejected(v) == [state |-> "rejected", value |-> v]
Pending == [state |-> "pending", value |-> Undefined]

(* if (res && typeof res.status === 'function') {                           *)
(*   res.status(statusCode).json(errorResponse)                             *)
(* } else { return new Response(JSON.stringify(errorResponse),              *)
(*   { status: statusCode, headers: { 'Content-Type': 'application/json' } }) } *)
EmitStage(res, statusCode, errorResponse) ==
  IF IsApiRoute(res)
  THEN [sink |-> <<[op |-> "status", arg |-> statusCode],
                   [op |-> "json", arg |-> errorResponse]>>,
        trace |-> <<"res.status", "json">>,
        result |-> Fulfilled(Undefined)]
  ELSE [sink |-> <<>>,
        trace |-> <<"new Response">>,
        result |-> Fulfilled(NewResponse(JSONStringify(errorResponse),
                                         statusCode,
                                         Str("application/json")))]

(* The catch block with a formatError failure handed to the logger as     *)
(* well.                                                                    *)
CatchBlock_FormatFailureToLogger(o, req, res, error) ==
  LET logged == LogStage(o, res, error)
      failed == /\ ~IsNullish(error)
                /\ LoggerIsCallable(logger(o))
                /\ FormatterIsCallable(formatError(o))
                /\ FormatterThrows(formatError(o), error)
      log == [logged EXCEPT !.loggerCalls =
                IF failed
                THEN @ \o <<[fn |-> logger(o), label |-> "formatError failed:",
                             error |-> FormatterThrown(formatError(o))]>>
                ELSE @]
      statusCode == ClassifyStatusCode(o, error)
      message == ClassifyMessage(o, error)
      ty == ErrorType(error)
      fmt == FormatStage(o, error, req, message,
                         DefaultEnvelope(message, ty.type))
      emit == EmitStage(res, statusCode, fmt.errorResponse)
  IN IF log.exc # <<>>
     THEN [loggerCalls |-> log.loggerCalls,
           consoleCalls |-> log.consoleCalls,
           formatCalls |-> <<>>,
           sink |-> <<>>,
           trace |-> log.trace,
           result |-> Rejected(log.exc[1])]
     ELSE IF ty.exc # <<>>
     THEN [loggerCalls |-> log.loggerCalls,
           consoleCalls |-> log.consoleCalls,
           formatCalls |-> <<>>,
           sink |-> <<>>,
           trace |-> log.trace,
           result |-> Rejected(ty.exc[1])]
     ELSE IF fmt.exc # <<>>
     THEN [loggerCalls |-> log.loggerCalls,
           consoleCalls |-> log.consoleCalls \o fmt.consoleCalls,
           formatCalls |-> fmt.formatCalls,
           sink |-> <<>>,
           trace |-> log.trace \o fmt.trace,
           result |-> Rejected(fmt.exc[1])]
     ELSE [loggerCalls |-> log.loggerCalls,
           consoleCalls |-> log.consoleCalls \o fmt.consoleCalls,
           formatCalls |-> fmt.formatCalls,
           sink |-> emit.sink,
           trace |-> log.trace \o fmt.trace \o emit.trace,
           result |-> emit.result]

(* The catch block with a failed formatError turning the status into 500. *)
CatchBlock_StatusFromFormatter(o, req, res, error) ==
  LET log == LogStage(o, res, error)
      statusCode == IF /\ ~IsNullish(error)
                       /\ FormatterIsCallable(formatError(o))
                       /\ FormatterThrows(formatError(o), error)
                    THEN Num(500)
                    ELSE ClassifyStatusCode(o, error)
      message == ClassifyMessage(o, error)
      ty == ErrorType(error)
      fmt == FormatStage(o, error, req, message,
                         DefaultEnvelope(message, ty.type))
      emit == EmitStage(res, statusCode, fmt.errorResponse)
  IN IF log.exc # <<>>
     THEN [loggerCalls |-> log.loggerCalls,
           consoleCalls |-> log.consoleCalls,
           formatCalls |-> <<>>,
           sink |-> <<>>,
           trace |-> log.trace,
           result |-> Rejected(log.exc[1])]
     ELSE IF ty.exc # <<>>
     THEN [loggerCalls |-> log.loggerCalls,
           consoleCalls |-> log.consoleCalls,
           formatCalls |-> <<>>,
           sink |-> <<>>,
           trace |-> log.trace,
           result |-> Rejected(ty.exc[1])]
     ELSE IF fmt.exc # <<>>
     THEN [loggerCalls |-> log.loggerCalls,
           consoleCalls |-> log.consoleCalls \o fmt.consoleCalls,
           formatCalls |-> fmt.formatCalls,
           sink |-> <<>>,
           trace |-> log.trace \o fmt.trace,
           result |-> Rejected(fmt.exc[1])]
     ELSE [loggerCalls |-> log.loggerCalls,
           consoleCalls |-> log.consoleCalls \o fmt.consoleCalls,
           formatCalls |-> fmt.formatCalls,
           sink |-> emit.sink,
           trace |-> log.trace \o fmt.trace \o emit.trace,
           result |-> emit.result]

(* The catch block, lines 84-158: the statements in order; an exception    *)
(* that leaves one of them leaves the wrapped handler, whose promise then   *)
(* rejects with it.                                                         *)
CatchBlock(o, req, res, error) ==
  LET log == LogStage(o, res, error)
      statusCode == ClassifyStatusCode(o, error)
      message == ClassifyMessage(o, error)
      ty == ErrorType(error)
      fmt == FormatStage(o, error, req, message,
                         DefaultEnvelope(message, ty.type))
      emit == EmitStage(res, statusCode, fmt.errorResponse)
  IN IF log.exc # <<>>
     THEN [loggerCalls |-> log.loggerCalls,
           consoleCalls |-> log.consoleCalls,
           formatCalls |-> <<>>,
           sink |-> <<>>,
           trace |-> log.trace,
           result |-> Rejected(log.exc[1])]
     ELSE IF ty.exc # <<>>
     THEN [loggerCalls |-> log.loggerCalls,
           consoleCalls |-> log.consoleCalls,
           formatCalls |-> <<>>,
           sink |-> <<>>,
           trace |-> log.trace,
           result |-> Rejected(ty.exc[1])]
     ELSE IF fmt.exc # <<>>
     THEN [loggerCalls |-> log.loggerCalls,
           consoleCalls |-> log.consoleCalls \o fmt.consoleCalls,
           formatCalls |-> fmt.formatCalls,
           sink |-> <<>>,
           trace |-> log.trace \o fmt.trace,
           result |-> Rejected(fmt.exc[1])]
     ELSE [loggerCalls |-> log.loggerCalls,
           consoleCalls |-> log.consoleCalls \o fmt.consoleCalls,
           formatCalls |-> fmt.formatCalls,
           sink |-> emit.sink,
           trace |-> log.trace \o fmt.trace \o emit.trace,
           result |-> emit.result]

(* SuccessResult without the fallback: return response. *)
SuccessResult_NoFallback(response) == response

(* return response || new Response(null, { status: 204 }) *)
SuccessResult(response) ==
  Or(response, NewResponse(Null, Num(204), Undefined))

-----------------------------------------------------------------------------
(* The inputs: options, requests, second arguments, what handlers do *)

Loggers ==
  {Undefined, Null, Str("not a function"), Fn("mockLogger"), Fn("throwingLogger")}

Formatters ==
  {Undefined, Null, Str("not a function"), Num(42),
   [t |-> "object", cls |-> "Object"],
   Fn("formatError"), Fn("throwingFormatter")}

(* The logger/formatError pairs: every absent or callable logger with     *)
(* every absent or callable formatError, every non-callable logger with an  *)
(* absent or callable formatError, every non-callable formatError with an   *)
(* absent or callable logger.                                               *)
LoggerFormatterPairs ==
  LET plainLoggers == {Undefined, Fn("mockLogger"), Fn("throwingLogger")}
      plainFormatters ==
        {Undefined, Null, Fn("formatError"), Fn("throwingFormatter")}
  IN (plainLoggers \X plainFormatters)
     \cup ((Loggers \ plainLoggers)
           \X {Undefined, Fn("formatError"), Fn("throwingFormatter")})
     \cup ({Undefined, Fn("mockLogger")} \X (Formatters \ plainFormatters))

(* Either both defaults are left alone or both are configured. *)
OptionsSet ==
  {[logger |-> lf[1], defaultStatusCode |-> d[1], defaultMessage |-> d[2],
    formatError |-> lf[2]] :
     lf \in LoggerFormatterPairs,
     d \in {<<Undefined, Undefined>>,
            <<Num(503), Str("Something went wrong.")>>}}

Requests ==
  {[t |-> "object", cls |-> "Request", requestId |-> Str("12345")],
   [t |-> "object", cls |-> "Request", requestId |-> Undefined]}

(* A response sink (res of an API route) and the context object the App    *)
(* Router passes as second argument, which has no status member.            *)
Sink ==
  [t |-> "object", cls |-> "ServerResponse", status |-> Fn("res.status")]
Context ==
  [t |-> "object", cls |-> "Object", status |-> Undefined]

SecondArgs == {Undefined, Null, Sink, Context}

OkResponse ==
  NewResponse(Str("{\"success\":true}"), Num(200), Str("application/json"))

(* What the original handler returns. *)
HandlerResults ==
  {Undefined, Null, Bool(FALSE), Num(0), Str(""), Str("ok"), OkResponse}

Messages == {Undefined, Str(""), Str("Name is required.")}

(* Thrown values that are instances of CustomError. *)
CustomThrown ==
  {CustomError(m, sc, n) :
     m \in Messages,
     sc \in {Undefined, Num(400)},
     n \in {Undefined, Str(""), Str("BadRequestError")}}
  \cup {NewPredefined(k, m) :
          k \in {"BadRequestError", "NotFoundError"},
          m \in Messages}
  \cup {NewConsumerConflictError(m) : m \in Messages}

(* Thrown values that are not: Error and TypeError instances with or        *)
(* without attached fields, plain objects, primitives, null, undefined.     *)
OtherThrown ==
  {ErrorObject(c, Str(c), m, sc) :
     c \in {"Error", "TypeError"},
     m \in {Str(""), Str("Sensitive internal error message")},
     sc \in {Undefined, Num(400)}}
  \cup {ErrorObject("Object", n, m, sc) :
          n \in {Undefined, Str("NotFoundError")},
          m \in {Undefined, Str("Non-error object")},
          sc \in {Undefined, Num(404)}}
  \cup {Str("boom"), Null, Undefined}

ThrownValues == CustomThrown \cup OtherThrown

-----------------------------------------------------------------------------
(* One invocation of the wrapped handler *)

IdleCall ==
  [pc |-> "idle",
   args |-> <<>>,
   handlerCalls |-> 0,
   suspended |-> FALSE,
   overlapped |-> FALSE,
   req |-> Undefined,
   res |-> Undefined,
   handlerArgs |-> <<>>,
   handlerWrote |-> <<>>,
   returned |-> <<>>,
   thrown |-> <<>>,
   loggerCalls |-> <<>>,
   consoleCalls |-> <<>>,
   formatCalls |-> <<>>,
   sink |-> <<>>,
   trace |-> <<>>,
   result |-> Pending]

Init ==
  /\ options \in OptionsSet
  /\ calls = [c \in {1} |-> IdleCall]
  /\ ncalls = 0
  /\ constructed = <<>>

(* With one call at a time the inputs range over the full sets; with two  *)
(* calls in flight they range over the smaller ones.                        *)
OneAtATime == DOMAIN calls = {1}

SecondArgChoices ==
  IF OneAtATime THEN SecondArgs ELSE {Undefined, Sink, Context}

ResultChoices == IF OneAtATime THEN HandlerResults ELSE {OkResponse}

ThrownChoices ==
  IF OneAtATime THEN ThrownValues
  ELSE {NewPredefined("BadRequestError", Str("Name is required.")),
        NewPredefined("NotFoundError", Undefined),
        ErrorObject("Error", Str("Error"),
                    Str("Sensitive internal error message"), Undefined)}

(* Another call of the same wrapped handler is in flight. *)
OthersInFlight(c) ==
  \E d \in DOMAIN calls \ {c} : calls[d].pc = "running"

(* Invoke with both arguments handed on to the original handler under     *)
(* either convention.                                                       *)
Invoke_ForwardsAll(c) ==
  /\ calls[c].pc \in {"idle", "done"}
  /\ ncalls < MaxCalls
  /\ \E req \in Requests, res \in SecondArgChoices :
       calls' = [calls EXCEPT ![c] =
                   [IdleCall EXCEPT
                      !.pc = "running",
                      !.args = <<req, res>>,
                      !.handlerCalls = 1,
                      !.req = req,
                      !.res = res,
                      !.handlerArgs = <<req, res>>]]
  /\ ncalls' = ncalls + 1
  /\ UNCHANGED <<options, constructed>>

(* Invoke with the convention detected once, at the first call of the     *)
(* wrapped handler, and kept for the calls that follow.                     *)
Invoke_Sticky(c) ==
  /\ calls[c].pc \in {"idle", "done"}
  /\ ncalls < MaxCalls
  /\ \E req \in Requests, res \in SecondArgChoices :
       LET imperative == IF calls[c].pc = "done"
                         THEN Len(calls[c].handlerArgs) = 2
                         ELSE IsApiRoute(res)
       IN calls' = [calls EXCEPT ![c] =
                      [IdleCall EXCEPT
                         !.pc = "running",
                         !.args = <<req, res>>,
                         !.handlerCalls = 1,
                         !.req = req,
                         !.res = res,
                         !.handlerArgs = IF imperative
                                         THEN <<req, res>> ELSE <<req>>]]
  /\ ncalls' = ncalls + 1
  /\ UNCHANGED <<options, constructed>>

(* The wrapped handler is called with (req, res): lines 71-79.  The         *)
(* original handler is called with (req, res) when res has a status         *)
(* function, and with (req) otherwise.                                      *)
Invoke(c) ==
  /\ calls[c].pc \in {"idle", "done"}
  /\ ncalls < MaxCalls
  /\ \E req \in Requests, res \in SecondArgChoices :
       calls' = [calls EXCEPT ![c] =
                   [IdleCall EXCEPT
                      !.pc = "running",
                      !.args = <<req, res>>,
                      !.handlerCalls = 1,
                      !.req = req,
                      !.res = res,
                      !.handlerArgs = IF IsApiRoute(res)
                                      THEN <<req, res>> ELSE <<req>>]]
  /\ ncalls' = ncalls + 1
  /\ UNCHANGED <<options, constructed>>

(* The running handler writes its own response to the sink it was given:   *)
(* res.status(200).json({ success: true }).                                 *)
HandlerWritesSink(c) ==
  /\ calls[c].pc = "running"
  /\ Len(calls[c].handlerArgs) = 2
  /\ calls[c].handlerWrote = <<>>
  /\ IsApiRoute(calls[c].res)
  /\ LET w == <<[op |-> "status", arg |-> Num(200)],
                [op |-> "json", arg |-> Str("{\"success\":true}")]>>
     IN calls' = [calls EXCEPT ![c].handlerWrote = w, ![c].sink = w]
  /\ UNCHANGED <<options, ncalls, constructed>>

(* While the handler runs, the status member of the second argument is     *)
(* removed, or added.                                                       *)
HandlerChangesStatusMember(c) ==
  /\ calls[c].pc = "running"
  /\ calls[c].res.t = "object"
  /\ calls' = [calls EXCEPT ![c].res.status =
                 IF TypeOf(@) = "function" THEN Undefined ELSE Fn("res.status")]
  /\ UNCHANGED <<options, ncalls, constructed>>

(* The handler reaches an await and suspends; the wrapper, which awaits    *)
(* the handler at line 76 or 79, stays suspended with it.                   *)
HandlerSuspends(c) ==
  /\ calls[c].pc = "running"
  /\ ~calls[c].suspended
  /\ calls' = [calls EXCEPT ![c].suspended = TRUE]
  /\ UNCHANGED <<options, ncalls, constructed>>

(* HandlerReturns with the wrapper acknowledging a normal completion on    *)
(* the sink itself.                                                         *)
HandlerReturns_Acknowledges(c) ==
  /\ calls[c].pc = "running"
  /\ \E response \in ResultChoices :
       calls' = [calls EXCEPT
                   ![c].pc = "done",
                   ![c].overlapped = OthersInFlight(c),
                   ![c].returned = <<response>>,
                   ![c].sink = IF Len(calls[c].handlerArgs) = 2
                               THEN @ \o <<[op |-> "status", arg |-> Num(200)],
                                           [op |-> "json", arg |-> response]>>
                               ELSE @,
                   ![c].result = IF Len(calls[c].handlerArgs) = 2
                                 THEN Fulfilled(Undefined)
                                 ELSE Fulfilled(SuccessResult(response))]
  /\ UNCHANGED <<options, ncalls, constructed>>

(* The handler completes normally: lines 74-83. *)
HandlerReturns(c) ==
  /\ calls[c].pc = "running"
  /\ \E response \in ResultChoices :
       calls' = [calls EXCEPT
                   ![c].pc = "done",
                   ![c].overlapped = OthersInFlight(c),
                   ![c].returned = <<response>>,
                   ![c].result = IF Len(calls[c].handlerArgs) = 2
                                 THEN Fulfilled(Undefined)
                                 ELSE Fulfilled(SuccessResult(response))]
  /\ UNCHANGED <<options, ncalls, constructed>>

(* AwaitFailure with the handler's promise returned without await: a      *)
(* rejection after the handler had suspended passes the catch block by and  *)
(* becomes the rejection of the wrapped handler's own promise.              *)
AwaitFailure_NotAwaited(o, req, res, error, suspended) ==
  IF suspended
  THEN [loggerCalls |-> <<>>, consoleCalls |-> <<>>, formatCalls |-> <<>>,
        sink |-> <<>>, trace |-> <<>>, result |-> Rejected(error)]
  ELSE CatchBlock(o, req, res, error)

(* await handler(...) inside the try block, lines 73-84: a throw before    *)
(* the handler's first await and a rejection after it had suspended both    *)
(* land in the catch block.                                                 *)
AwaitFailure(o, req, res, error, suspended) == CatchBlock(o, req, res, error)

(* HandlerThrows with one retry: the first failure of a call invokes the   *)
(* original handler again, the second is handled.                           *)
HandlerThrows_Retries(c) ==
  /\ calls[c].pc = "running"
  /\ \E error \in ThrownChoices :
       LET e == AwaitFailure(options, calls[c].req, calls[c].res, error,
                             calls[c].suspended)
       IN IF calls[c].handlerCalls = 1
          THEN calls' = [calls EXCEPT ![c].handlerCalls = 2]
          ELSE calls' = [calls EXCEPT
                           ![c].pc = "done",
                           ![c].overlapped = OthersInFlight(c),
                           ![c].thrown = <<error>>,
                           ![c].loggerCalls = e.loggerCalls,
                           ![c].consoleCalls = e.consoleCalls,
                           ![c].formatCalls = e.formatCalls,
                           ![c].sink = @ \o e.sink,
                           ![c].trace = e.trace,
                           ![c].result = e.result]
  /\ UNCHANGED <<options, ncalls, constructed>>

(* HandlerThrows with req and res kept where every call of the wrapped     *)
(* handler stores them, so that the catch block reads those of the latest   *)
(* call in flight.                                                          *)
HandlerThrows_SharedArguments(c) ==
  /\ calls[c].pc = "running"
  /\ \E error \in ThrownChoices :
       LET d == CHOOSE d \in DOMAIN calls :
                  /\ calls[d].pc = "running"
                  /\ \A k \in DOMAIN calls : calls[k].pc = "running" => k <= d
           e == AwaitFailure(options, calls[d].req, calls[d].res, error,
                             calls[c].suspended)
       IN calls' = [calls EXCEPT
                      ![c].pc = "done",
                      ![c].overlapped = OthersInFlight(c),
                      ![c].thrown = <<error>>,
                      ![c].loggerCalls = e.loggerCalls,
                      ![c].consoleCalls = e.consoleCalls,
                      ![c].formatCalls = e.formatCalls,
                      ![c].sink = @ \o e.sink,
                      ![c].trace = e.trace,
                      ![c].result = e.result]
  /\ UNCHANGED <<options, ncalls, constructed>>

(* The handler throws, or the promise it returned rejects: lines 84-158. *)
HandlerThrows(c) ==
  /\ calls[c].pc = "running"
  /\ \E error \in ThrownChoices :
       LET e == AwaitFailure(options, calls[c].req, calls[c].res, error,
                             calls[c].suspended)
       IN calls' = [calls EXCEPT
                      ![c].pc = "done",
                      ![c].overlapped = OthersInFlight(c),
                      ![c].thrown = <<error>>,
                      ![c].loggerCalls = e.loggerCalls,
                      ![c].consoleCalls = e.consoleCalls,
                      ![c].formatCalls = e.formatCalls,
                      ![c].sink = @ \o e.sink,
                      ![c].trace = e.trace,
                      ![c].result = e.result]
  /\ UNCHANGED <<options, ncalls, constructed>>

Next ==
  \/ \E c \in DOMAIN calls : Invoke(c)
  \/ \E c \in DOMAIN calls : HandlerWritesSink(c)
  \/ \E c \in DOMAIN calls : HandlerChangesStatusMember(c)
  \/ \E c \in DOMAIN calls : HandlerSuspends(c)
  \/ \E c \in DOMAIN calls : HandlerReturns(c)
  \/ \E c \in DOMAIN calls : HandlerThrows(c)

Spec == Init /\ [][Next]_vars

-----------------------------------------------------------------------------
(* Two calls of one wrapped handler in flight together *)

ConcurrentOptions ==
  {[logger |-> Fn("mockLogger"), defaultStatusCode |-> Undefined,
    defaultMessage |-> Undefined, formatError |-> f] :
     f \in {Undefined, Fn("formatError")}}

InitConcurrent ==
  /\ options \in ConcurrentOptions
  /\ calls = [c \in {1, 2} |-> IdleCall]
  /\ ncalls = 0
  /\ constructed = <<>>

SpecConcurrent == InitConcurrent /\ [][Next]_vars

-----------------------------------------------------------------------------
(* Constructing the errors of the taxonomy *)

TaxonomyClasses == PredefinedKinds \cup {"CustomError", "ConsumerConflictError"}

(* Argument lists of zero to three arguments: message, statusCode, name. *)
ConstructorArgs ==
  LET ms == Messages
      scs == {Undefined, Num(400), Num(999)}
      ns == {Undefined, Str(""), Str("CustomError"), Str("OtherError")}
  IN {<<>>} \cup {<<m>> : m \in ms}
     \cup {<<m, sc>> : m \in ms, sc \in scs}
     \cup {<<m, sc, n>> : m \in ms, sc \in scs, n \in ns}

InitTaxonomy ==
  /\ options = [logger |-> Undefined, defaultStatusCode |-> Undefined,
                defaultMessage |-> Undefined, formatError |-> Undefined]
  /\ calls = [c \in {1} |-> IdleCall]
  /\ ncalls = 0
  /\ constructed = <<>>

(* new cls(...args) *)
ConstructError ==
  \E cls \in TaxonomyClasses, args \in ConstructorArgs :
    /\ constructed' = <<[cls |-> cls, args |-> args,
                         value |-> Construct(cls, args)]>>
    /\ UNCHANGED <<options, calls, ncalls>>

NextTaxonomy == ConstructError

SpecTaxonomy == InitTaxonomy /\ [][NextTaxonomy]_vars

-----------------------------------------------------------------------------
(* Reading a call's outcome *)

Done(c) == calls[c].pc = "done"

(* The call ended in the catch block. *)
Failed(c) == Done(c) /\ calls[c].thrown # <<>>

Thrown(c) == calls[c].thrown[1]

(* The original handler was called under the imperative convention. *)
Imperative(c) == Len(calls[c].handlerArgs) = 2

(* What the wrapper itself wrote to the sink, after what the handler wrote. *)
WrapperWrites(c) ==
  SubSeq(calls[c].sink, Len(calls[c].handlerWrote) + 1, Len(calls[c].sink))

(* The call answered with this status and this body: through the sink      *)
(* (status(status) then json(body)), or as the returned Response carrying   *)
(* the JSON text of body.                                                   *)
SentToSink(c, status, body) ==
  /\ WrapperWrites(c) = <<[op |-> "status", arg |-> status],
                          [op |-> "json", arg |-> body]>>
  /\ calls[c].result = Fulfilled(Undefined)

ReturnedResponse(c, status, body) ==
  /\ WrapperWrites(c) = <<>>
  /\ calls[c].result =
       Fulfilled(NewResponse(JSONStringify(body), status, Str("application/json")))

Answered(c, status, body) ==
  SentToSink(c, status, body) \/ ReturnedResponse(c, status, body)

(* The name-like values a thrown value of the model may carry. *)
TypeNames ==
  {Str("Error"), Str("TypeError"), Str("NotFoundError"), Str("CustomError"),
   Str("BadRequestError"), Str("ConflictError")}

NoFormatError == options.formatError.t \in {"undefined", "null"}

-----------------------------------------------------------------------------
(* Claims *)

(* C1: every thrown value that is not an instance of CustomError, with no  *)
(* formatError and under either convention, is answered with               *)
(* defaultStatusCode and with an envelope whose message is defaultMessage.  *)
C1_UnrecognizedGetDefaults ==
  \A c \in DOMAIN calls :
    (Failed(c) /\ NoFormatError /\ ~InstanceOf(Thrown(c), "CustomError"))
      => \E ty \in TypeNames :
           Answered(c, defaultStatusCode(options),
                    DefaultEnvelope(defaultMessage(options), ty))

(* C2, as stated: a thrown CustomError instance with a non-empty message,   *)
(* with no formatError, is answered with its statusCode, its message and    *)
(* its name as the envelope type.                                           *)
C2_TypeIsName ==
  \A c \in DOMAIN calls :
    (/\ Failed(c) /\ NoFormatError
     /\ InstanceOf(Thrown(c), "CustomError")
     /\ Truthy(Thrown(c).message))
      => Answered(c, Thrown(c).statusCode,
                  DefaultEnvelope(Thrown(c).message, Thrown(c).name))

(* C2, amended: ... is answered with its statusCode and its message, and    *)
(* the envelope type is its name when the name is non-empty and "Error"     *)
(* when it is empty.                                                        *)
C2_KnownErrorAnswered ==
  \A c \in DOMAIN calls :
    (/\ Failed(c) /\ NoFormatError
     /\ InstanceOf(Thrown(c), "CustomError")
     /\ Truthy(Thrown(c).message))
      => Answered(c, Thrown(c).statusCode,
                  DefaultEnvelope(Thrown(c).message,
                                  IF Thrown(c).name = Str("")
                                  THEN Str("Error") ELSE Thrown(c).name))

(* A CustomError with an empty name and a non-empty message was thrown and  *)
(* answered by a returned Response.                                         *)
C2_Witness ==
  \E c \in DOMAIN calls :
    /\ Failed(c) /\ NoFormatError
    /\ InstanceOf(Thrown(c), "CustomError")
    /\ Truthy(Thrown(c).message)
    /\ Thrown(c).name = Str("")
    /\ ~Imperative(c)
    /\ calls[c].result.value.t = "object"

(* C3: whenever an envelope is emitted for a thrown value that is not a     *)
(* CustomError instance, with no formatError, its type is "Error".          *)
C3_TypeIsError ==
  \A c \in DOMAIN calls :
    (/\ Failed(c) /\ NoFormatError
     /\ ~InstanceOf(Thrown(c), "CustomError")
     /\ calls[c].result.state = "fulfilled")
      => Answered(c, defaultStatusCode(options),
                  DefaultEnvelope(defaultMessage(options), Str("Error")))

(* C4: whatever the handler throws, the wrapped handler's promise is        *)
(* fulfilled, never rejected.                                               *)
C4_NeverRejects ==
  \A c \in DOMAIN calls :
    Failed(c) => calls[c].result.state = "fulfilled"

(* The formatter was called and threw: the fallback channel reported it. *)
FormatterFailed(c) ==
  \E i \in 1..Len(calls[c].consoleCalls) :
    calls[c].consoleCalls[i].label = "formatError failed:"

(* C5: when formatError is a function, every failure that is answered went *)
(* through it; and when it was called and returned normally, it was called  *)
(* once with the thrown value and the request of the call, and the body     *)
(* emitted (json argument, or JSON text of the Response) is its return      *)
(* value, not the default envelope.                                         *)
C5_BodyIsFormatErrorResult ==
  \A c \in DOMAIN calls :
    /\ (/\ Failed(c) /\ options.formatError.t = "function"
        /\ calls[c].result.state = "fulfilled")
         => calls[c].formatCalls # <<>>
    /\ (Failed(c) /\ calls[c].formatCalls # <<>> /\ ~FormatterFailed(c))
         => /\ calls[c].formatCalls =
                 <<[error |-> Thrown(c), req |-> calls[c].req]>>
            /\ Answered(c, ClassifyStatusCode(options, Thrown(c)),
                        FormatterReturn(options.formatError,
                                        calls[c].formatCalls[1].error,
                                        calls[c].formatCalls[1].req))

(* A BadRequestError was thrown under the value-returning convention and    *)
(* the formatter returned its object.                                       *)
C5_Witness ==
  \E c \in DOMAIN calls :
    /\ Failed(c) /\ ~Imperative(c)
    /\ options.formatError = Fn("formatError")
    /\ Thrown(c) = NewPredefined("BadRequestError", Str("Name is required."))
    /\ calls[c].req.requestId = Str("12345")
    /\ calls[c].result.value.t = "object"
    /\ calls[c].result.value.body =
         Str("{\"errorMessage\":\"Name is required.\",\"errorType\":\"BadRequestError\",\"requestId\":\"12345\"}")

(* C6: with a formatError that is supplied and is not a function, a failed  *)
(* call does exactly what it does with no formatError: the same logger      *)
(* calls, the same writes to the sink, the same settled promise, and no     *)
(* report of a formatting failure.                                          *)
C6_NonFunctionFormatErrorIgnored ==
  \A c \in DOMAIN calls :
    (Failed(c) /\ options.formatError.t \notin {"undefined", "function"})
      => LET without ==
               CatchBlock([options EXCEPT !.formatError = Undefined],
                          calls[c].req, calls[c].res, Thrown(c))
         IN /\ calls[c].loggerCalls = without.loggerCalls
            /\ calls[c].consoleCalls = without.consoleCalls
            /\ calls[c].formatCalls = <<>>
            /\ WrapperWrites(c) = without.sink
            /\ calls[c].result = without.result

(* formatError: 'not a function', a BadRequestError thrown, answered with   *)
(* the default envelope through the sink.                                   *)
C6_Witness ==
  \E c \in DOMAIN calls :
    /\ Failed(c)
    /\ options.formatError = Str("not a function")
    /\ Thrown(c) = NewPredefined("BadRequestError", Str("Name is required."))
    /\ SentToSink(c, Num(400),
                  DefaultEnvelope(Str("Name is required."),
                                  Str("BadRequestError")))

(* C7: with a logger that throws, a failed call writes to the sink and      *)
(* settles exactly as with a logger that returns; the logger was given the  *)
(* thrown value, and the promise never rejects with the logger's exception. *)
C7_ThrowingLoggerChangesNothing ==
  \A c \in DOMAIN calls :
    (Failed(c) /\ options.logger = Fn("throwingLogger"))
      => LET quiet ==
               CatchBlock([options EXCEPT !.logger = Fn("mockLogger")],
                          calls[c].req, calls[c].res, Thrown(c))
         IN /\ WrapperWrites(c) = quiet.sink
            /\ calls[c].result = quiet.result
            /\ calls[c].result # Rejected(LoggerException)
            /\ Len(calls[c].loggerCalls) = 1
            /\ calls[c].loggerCalls[1].error = Thrown(c)

(* The logger threw, which was reported as 'Logging failed:', and the       *)
(* NotFoundError thrown by the handler was answered with its own 404.       *)
C7_Witness ==
  \E c \in DOMAIN calls :
    /\ Failed(c)
    /\ options.logger = Fn("throwingLogger")
    /\ NoFormatError
    /\ calls[c].consoleCalls =
         <<[label |-> "Logging failed:", error |-> LoggerException]>>
    /\ Thrown(c) = NewPredefined("NotFoundError", Undefined)
    /\ SentToSink(c, Num(404),
                  DefaultEnvelope(Str("The requested resource was not found."),
                                  Str("NotFoundError")))

C9_NothingReturnedGives204 ==
  \A c \in DOMAIN calls :
    (Done(c) /\ ~Imperative(c) /\ calls[c].returned = <<Undefined>>)
      => /\ calls[c].result.state = "fulfilled"
         /\ calls[c].result.value =
              [t |-> "object", cls |-> "Response", status |-> Num(204),
               contentType |-> Null, body |-> Str("")]

C9_Witness ==
  \E c \in DOMAIN calls :
    /\ Done(c) /\ ~Imperative(c)
    /\ calls[c].returned = <<Undefined>>
    /\ calls[c].res = Null
    /\ calls[c].result.value.status = Num(204)

(* C10: under the value-returning convention, a result that is not absent   *)
(* (neither undefined nor null) is returned as it is, and only an absent    *)
(* result is replaced by the 204 response.                                  *)
C10_ResultForwardedUnlessAbsent ==
  \A c \in DOMAIN calls :
    (Done(c) /\ ~Imperative(c) /\ calls[c].returned # <<>>)
      => IF IsNullish(calls[c].returned[1])
         THEN calls[c].result.value.status = Num(204)
         ELSE calls[c].result = Fulfilled(calls[c].returned[1])

(* The body the catch block answers with: the envelope, or what stands in  *)
(* for it after formatError ran.                                            *)
AnswerBody(c) ==
  LET message == ClassifyMessage(options, Thrown(c))
  IN FormatStage(options, Thrown(c), calls[c].req, message,
                 DefaultEnvelope(message, ErrorType(Thrown(c)).type)).errorResponse

(* The call was made and ended under the value-returning convention. *)
ValueReturning(c) == ~Imperative(c) /\ ~IsApiRoute(calls[c].res)

(* C11: under the value-returning convention every failure makes the       *)
(* wrapped handler return a Response whose status is the classified status  *)
(* code, whose Content-Type is application/json and whose body is the JSON  *)
(* text of the envelope.                                                    *)
C11_FailureReturnsJsonResponse ==
  \A c \in DOMAIN calls :
    (Failed(c) /\ ValueReturning(c)) =>
      /\ calls[c].result.state = "fulfilled"
      /\ calls[c].result.value =
           [t |-> "object", cls |-> "Response",
            status |-> ClassifyStatusCode(options, Thrown(c)),
            contentType |-> Str("application/json"),
            body |-> JSONStringify(AnswerBody(c))]

CalledWithSink(c) ==
  LET res == calls[c].args[2]
  IN /\ res.t = "object"
     /\ "status" \in DOMAIN res
     /\ res.status.t = "function"

(* C13: the convention is detected at each call from that call's own       *)
(* arguments: the original handler gets (req, res) exactly when the second  *)
(* argument is present and has a function-valued status member, and (req)   *)
(* otherwise, whatever convention the call before it was served under; a    *)
(* call that completes normally resolves to undefined under the imperative  *)
(* convention and to a value under the value-returning one.                 *)
C13_ConventionPerInvocation ==
  \A c \in DOMAIN calls :
    calls[c].pc # "idle" =>
      /\ Imperative(c) <=> CalledWithSink(c)
      /\ calls[c].handlerArgs =
           IF CalledWithSink(c) THEN calls[c].args ELSE <<calls[c].args[1]>>
      /\ (Done(c) /\ ~Failed(c)) =>
           IF CalledWithSink(c)
           THEN calls[c].result = Fulfilled(Undefined)
           ELSE /\ calls[c].result.state = "fulfilled"
                /\ calls[c].result.value # Undefined

(* Two calls made one after the other, the first served under the        *)
(* imperative convention and answered on its sink, the second under the     *)
(* value-returning one and answered by a Response.                          *)
C13_Witness ==
  /\ DOMAIN calls = {1, 2}
  /\ ncalls = 2
  /\ Failed(1) /\ Failed(2)
  /\ ~calls[1].overlapped /\ ~calls[2].overlapped
  /\ CalledWithSink(1) /\ Imperative(1)
  /\ calls[1].args[2] = Sink
  /\ calls[2].args[2] = Context
  /\ ~CalledWithSink(2) /\ ~Imperative(2)
  /\ Len(WrapperWrites(1)) = 2
  /\ calls[2].result.state = "fulfilled"
  /\ calls[2].result.value.t = "object"
  /\ calls[2].result.value.cls = "Response"

-----------------------------------------------------------------------------
(* Claims about the taxonomy, under SpecTaxonomy *)

(* The documented table of predefined kinds: name, status code and default *)
(* message.                                                                 *)
DocumentedKinds ==
  [BadRequestError |-> [statusCode |-> 400, message |->
     "It seems there was an error with your request. Please check the data you entered and try again."],
   UnauthorizedError |-> [statusCode |-> 401, message |->
     "Unauthorized access. Please log in again."],
   PaymentRequiredError |-> [statusCode |-> 402, message |->
     "Payment is required to access this resource."],
   ForbiddenError |-> [statusCode |-> 403, message |->
     "Access denied."],
   NotFoundError |-> [statusCode |-> 404, message |->
     "The requested resource was not found."],
   MethodNotAllowedError |-> [statusCode |-> 405, message |->
     "The HTTP method used is not allowed for this resource."],
   NotAcceptableError |-> [statusCode |-> 406, message |->
     "The requested resource is not available in a format acceptable to your browser."],
   RequestTimeoutError |-> [statusCode |-> 408, message |->
     "The server timed out waiting for your request."],
   ConflictError |-> [statusCode |-> 409, message |->
     "A conflict occurred with the current state of the resource."],
   PayloadTooLargeError |-> [statusCode |-> 413, message |->
     "The request payload is too large."],
   TooManyRequestsError |-> [statusCode |-> 429, message |->
     "You have made too many requests in a short period of time."],
   InternalServerError |-> [statusCode |-> 500, message |->
     "An internal server error occurred. Please try again later."],
   NotImplementedError |-> [statusCode |-> 501, message |->
     "This functionality has not been implemented."],
   BadGatewayError |-> [statusCode |-> 502, message |->
     "Received an invalid response from the upstream server."],
   ServiceUnavailableError |-> [statusCode |-> 503, message |->
     "The service is currently unavailable."],
   GatewayTimeoutError |-> [statusCode |-> 504, message |->
     "The upstream server failed to send a request in time."],
   HTTPVersionNotSupportedError |-> [statusCode |-> 505, message |->
     "The server does not support the HTTP protocol version used in the request."],
   VariantAlsoNegotiatesError |-> [statusCode |-> 506, message |->
     "Variant Also Negotiates."],
   InsufficientStorageError |-> [statusCode |-> 507, message |->
     "The server is unable to store the representation needed to complete the request."],
   BandwidthLimitExceededError |-> [statusCode |-> 509, message |->
     "Bandwidth limit exceeded."],
   NetworkAuthenticationRequiredError |-> [statusCode |-> 511, message |->
     "Network authentication is required to access this resource."]]

(* An error of class cls has been constructed from the argument list args. *)
Constructed(cls, args) ==
  /\ constructed # <<>>
  /\ constructed[1].cls = cls
  /\ constructed[1].args = args

C15_PredefinedIgnoresExtraArguments ==
  \A kind \in PredefinedKinds, args \in ConstructorArgs :
    Constructed(kind, args) =>
      LET e == constructed[1].value
      IN /\ e.statusCode = Num(Predefined[kind].statusCode)
         /\ e.name = Str(kind)
         /\ e.name # Str("CustomError")
         /\ e = Construct(kind, SubSeq(args, 1, IF Len(args) = 0 THEN 0 ELSE 1))

C15_Witness ==
  /\ Constructed("UnauthorizedError",
                 <<Str("Name is required."), Num(999), Str("CustomError")>>)
  /\ constructed[1].value.statusCode = Num(401)
  /\ constructed[1].value.name = Str("UnauthorizedError")
  /\ constructed[1].value.message = Str("Name is required.")

(* C16: the base constructor takes (message, statusCode, name) and gives   *)
(* each argument that is not supplied its default, 'An error occurred.',    *)
(* 500 and 'CustomError', whatever the other arguments are; a supplied      *)
(* argument is kept as it is.                                               *)
C16_BaseDefaultsIndependent ==
  \A args \in ConstructorArgs :
    Constructed("CustomError", args) =>
      LET e == constructed[1].value
          supplied(i) == i <= Len(args) /\ args[i] # Undefined
      IN /\ e.message = IF supplied(1) THEN args[1]
                        ELSE Str("An error occurred.")
         /\ e.statusCode = IF supplied(2) THEN args[2] ELSE Num(500)
         /\ e.name = IF supplied(3) THEN args[3] ELSE Str("CustomError")

(* A status code supplied with neither message nor name. *)
C16_Witness ==
  /\ Constructed("CustomError", <<Undefined, Num(400)>>)
  /\ constructed[1].value.message = Str("An error occurred.")
  /\ constructed[1].value.statusCode = Num(400)
  /\ constructed[1].value.name = Str("CustomError")

-----------------------------------------------------------------------------
(* Claims about the wrapped handler, continued *)

(* The thrown value is an instance of the class a consumer defined by      *)
(* extending CustomError.                                                   *)
ConsumerKindThrown(c) ==
  /\ Failed(c)
  /\ Thrown(c).t = "object"
  /\ Thrown(c).cls = "ConsumerConflictError"

(* C17: an error of a kind the consumer defined by extending CustomError   *)
(* is classified as known: with no formatError the call is answered with    *)
(* the error's own status code and an envelope of its own message and name, *)
(* and under every option combination the answer is the one an error of a   *)
(* predefined kind with the same fields gets.                               *)
C17_ConsumerKindIsKnown ==
  \A c \in DOMAIN calls :
    ConsumerKindThrown(c) =>
      LET e == Thrown(c)
          twin == [e EXCEPT !.cls = "ConflictError"]
          same == CatchBlock(options, calls[c].req, calls[c].res, twin)
      IN /\ NoFormatError =>
              Answered(c, e.statusCode,
                       DefaultEnvelope(IF e.message = Str("")
                                       THEN defaultMessage(options)
                                       ELSE e.message,
                                       e.name))
         /\ calls[c].result = same.result
         /\ WrapperWrites(c) = same.sink
         /\ calls[c].formatCalls =
              [k \in DOMAIN same.formatCalls |->
                 [same.formatCalls[k] EXCEPT !.error = e]]

C17_Witness ==
  \E c \in DOMAIN calls :
    /\ ConsumerKindThrown(c)
    /\ NoFormatError
    /\ Thrown(c).message = Str("Resource conflict occurred.")
    /\ SentToSink(c, Num(409),
                  DefaultEnvelope(Str("Resource conflict occurred."),
                                  Str("ConflictError")))

(* C18: a known error whose message is empty is answered with its own     *)
(* status code and an envelope whose message is defaultMessage; a known     *)
(* error whose message is not empty is answered with that message, not with *)
(* defaultMessage.  (Envelope: no callable formatError.)                    *)
C18_EmptyMessageFallsBackToDefault ==
  \A c \in DOMAIN calls :
    (/\ Failed(c)
     /\ InstanceOf(Thrown(c), "CustomError")
     /\ ~FormatterIsCallable(formatError(options))) =>
      \E ty \in TypeNames :
        Answered(c, Thrown(c).statusCode,
                 DefaultEnvelope(IF Thrown(c).message = Str("")
                                 THEN defaultMessage(options)
                                 ELSE Thrown(c).message,
                                 ty))

C18_Witness ==
  \E c \in DOMAIN calls :
    /\ Failed(c)
    /\ InstanceOf(Thrown(c), "CustomError")
    /\ Thrown(c).message = Str("")
    /\ Thrown(c).statusCode = Num(400)
    /\ options.defaultStatusCode = Num(503)
    /\ \E ty \in TypeNames :
         ReturnedResponse(c, Num(400),
                          DefaultEnvelope(Str("Something went wrong."), ty))

(* The logger option was supplied and is not a function. *)
NonCallableLoggerSupplied == options.logger.t \notin {"undefined", "function"}

(* C19: a logger that is supplied but not callable is treated as absent:   *)
(* on a failure the call's result, its writes to the sink, its formatError  *)
(* call and its log calls are those of the same call on a wrapped handler   *)
(* built with no logger option, and the value causes no failure.            *)
C19_NonCallableLoggerIsAbsent ==
  \A c \in DOMAIN calls :
    (Failed(c) /\ NonCallableLoggerSupplied) =>
      LET absent == CatchBlock([options EXCEPT !.logger = Undefined],
                               calls[c].req, calls[c].res, Thrown(c))
      IN /\ calls[c].result = absent.result
         /\ WrapperWrites(c) = absent.sink
         /\ calls[c].formatCalls = absent.formatCalls
         /\ calls[c].loggerCalls = absent.loggerCalls
         /\ calls[c].consoleCalls = absent.consoleCalls

(* C20: the wrapped handler awaits the original handler.  While the        *)
(* handler runs, suspended or not, the wrapped handler's promise is pending *)
(* and the wrapper has logged nothing, formatted nothing and written        *)
(* nothing to the sink; a rejection after the handler had suspended is      *)
(* logged and answered exactly as the same value thrown synchronously.      *)
C20_AwaitsHandlerCompletion ==
  \A c \in DOMAIN calls :
    /\ calls[c].pc = "running" =>
         /\ calls[c].result = Pending
         /\ calls[c].loggerCalls = <<>>
         /\ calls[c].consoleCalls = <<>>
         /\ calls[c].formatCalls = <<>>
         /\ calls[c].trace = <<>>
         /\ WrapperWrites(c) = <<>>
    /\ (Failed(c) /\ calls[c].suspended) =>
         LET sync == CatchBlock(options, calls[c].req, calls[c].res, Thrown(c))
         IN /\ calls[c].loggerCalls = sync.loggerCalls
            /\ calls[c].consoleCalls = sync.consoleCalls
            /\ calls[c].formatCalls = sync.formatCalls
            /\ calls[c].trace = sync.trace
            /\ WrapperWrites(c) = sync.sink
            /\ calls[c].result = sync.result

(* A handler that suspended and then rejected with a known error, logged   *)
(* and answered through the sink.                                           *)
C20_Witness ==
  \E c \in DOMAIN calls :
    /\ Failed(c)
    /\ calls[c].suspended
    /\ NoFormatError
    /\ options.logger = Fn("mockLogger")
    /\ Thrown(c) = NewPredefined("BadRequestError", Str("Name is required."))
    /\ calls[c].loggerCalls =
         <<[fn |-> Fn("mockLogger"), label |-> "API Route Error:",
            error |-> Thrown(c)]>>
    /\ SentToSink(c, Num(400),
                  DefaultEnvelope(Str("Name is required."),
                                  Str("BadRequestError")))

-----------------------------------------------------------------------------
(* Claims about calls in flight together, under SpecConcurrent *)

(* C21: two calls of one wrapped handler that are in flight together do not *)
(* touch each other: whatever the interleaving, a call that failed has the  *)
(* log call (label and thrown value), the formatError call, the status and  *)
(* body, and the sink writes or returned Response that the catch block      *)
(* yields for its own request, its own second argument and its own thrown   *)
(* value, and its sink holds nothing but what its own handler and its own   *)
(* catch block wrote.                                                       *)
C21_ConcurrentCallsIndependent ==
  \A c \in DOMAIN calls :
    Failed(c) =>
      LET own == CatchBlock(options, calls[c].req, calls[c].res, Thrown(c))
      IN /\ calls[c].loggerCalls = own.loggerCalls
         /\ calls[c].formatCalls = own.formatCalls
         /\ calls[c].result = own.result
         /\ calls[c].sink = calls[c].handlerWrote \o own.sink
         /\ \A k \in DOMAIN calls[c].loggerCalls :
              calls[c].loggerCalls[k].error = Thrown(c)

(* Both calls suspended, the first failed while the second was in flight,  *)
(* then the second failed with another error under the other convention.    *)
C21_Witness ==
  /\ DOMAIN calls = {1, 2}
  /\ Failed(1) /\ Failed(2)
  /\ calls[1].suspended /\ calls[2].suspended
  /\ calls[1].overlapped
  /\ Thrown(1) # Thrown(2)
  /\ Imperative(1) /\ ~Imperative(2)
  /\ calls[1].loggerCalls[1].label = "API Route Error:"
  /\ calls[2].loggerCalls[1].label = "Route Error:"
  /\ SentToSink(1, Thrown(1).statusCode, AnswerBody(1))
  /\ ReturnedResponse(2, Num(500), AnswerBody(2))

-----------------------------------------------------------------------------
(* Claims about the wrapped handler, under Spec *)

(* C22: a completed call resolves to a response value, never to nothing    *)
(* and never by rejecting, when its handler was called under the            *)
(* value-returning convention, on success and on failure alike (on failure  *)
(* the value is a Response); when its handler was called under the          *)
(* imperative convention it resolves to undefined, whatever the handler     *)
(* returned, and a failure is written to the sink.                          *)
C22_OutputContract ==
  \A c \in DOMAIN calls :
    Done(c) =>
      IF Imperative(c)
      THEN /\ calls[c].result = Fulfilled(Undefined)
           /\ Failed(c) => Len(WrapperWrites(c)) = 2
      ELSE /\ calls[c].result.state = "fulfilled"
           /\ calls[c].result.value # Undefined
           /\ WrapperWrites(c) = <<>>
           /\ Failed(c) => /\ calls[c].result.value.t = "object"
                           /\ calls[c].result.value.cls = "Response"

-----------------------------------------------------------------------------
(* Claims about the taxonomy, under SpecTaxonomy, continued *)

(* The default messages the README's examples 1, 3 and 4 quote. *)
ReadmeDefaults ==
  [MethodNotAllowedError |-> "Method not allowed",
   UnauthorizedError |-> "Unauthorized access. Please log in.",
   PayloadTooLargeError |-> "Request entity too large"]

(* The error was constructed with no message. *)
ConstructedWithoutMessage(kind) ==
  /\ constructed # <<>>
  /\ constructed[1].cls = kind
  /\ Arg(constructed[1].args, 1) = Undefined

-----------------------------------------------------------------------------
(* Claims about the wrapped handler, under Spec, continued *)

(* C24: within one call the convention is the one the original handler was *)
(* called under, even when the handler changed the status member of the     *)
(* second argument before it threw: a logged failure carries the label of   *)
(* that convention, and a failure that was answered was answered through    *)
(* the sink after an imperative call and by a returned Response after a     *)
(* value-returning one.                                                     *)
C24_ConventionFixedAtInvocation ==
  \A c \in DOMAIN calls :
    Failed(c) =>
      /\ \A k \in DOMAIN calls[c].loggerCalls :
           calls[c].loggerCalls[k].label =
             IF Imperative(c) THEN "API Route Error:" ELSE "Route Error:"
      /\ calls[c].result.state = "fulfilled" =>
           IF Imperative(c)
           THEN /\ Len(WrapperWrites(c)) = 2
                /\ calls[c].result.value = Undefined
           ELSE /\ WrapperWrites(c) = <<>>
                /\ calls[c].result.value # Undefined

(* The wrapper's steps of a call in the order they happened, without the   *)
(* console.error reports of a failed logger or formatter.                   *)
MainSteps(c) == SelectSeq(calls[c].trace, LAMBDA x : x # "console.error")

(* C25: on a failure handled under the imperative convention with a        *)
(* callable logger and a callable formatError, the wrapper calls, in this   *)
(* order and once each, logger(label, error), formatError(error, req), the  *)
(* sink's status with the classified status code and json with the body;    *)
(* it writes nothing to the sink before the logger call.                    *)
C25_FailureStepsInOrder ==
  \A c \in DOMAIN calls :
    (/\ Failed(c)
     /\ Imperative(c)
     /\ IsApiRoute(calls[c].res)
     /\ LoggerIsCallable(logger(options))
     /\ FormatterIsCallable(formatError(options))) =>
      /\ MainSteps(c) = <<"logger", "formatError", "res.status", "json">>
      /\ calls[c].loggerCalls =
           <<[fn |-> logger(options), label |-> "API Route Error:",
              error |-> Thrown(c)]>>
      /\ calls[c].formatCalls = <<[error |-> Thrown(c), req |-> calls[c].req]>>
      /\ Len(WrapperWrites(c)) = 2
      /\ WrapperWrites(c)[1] =
           [op |-> "status", arg |-> ClassifyStatusCode(options, Thrown(c))]
      /\ WrapperWrites(c)[2] = [op |-> "json", arg |-> AnswerBody(c)]

(* The handler of the call completed normally. *)
Succeeded(c) == Done(c) /\ calls[c].returned # <<>>

(* C26: when the original handler completes normally the wrapper does      *)
(* nothing more: it calls neither logger nor formatError nor console.error, *)
(* and writes nothing to the sink, which holds exactly what the handler     *)
(* wrote.                                                                   *)
C26_NoActionOnSuccess ==
  \A c \in DOMAIN calls :
    Succeeded(c) =>
      /\ calls[c].loggerCalls = <<>>
      /\ calls[c].formatCalls = <<>>
      /\ calls[c].consoleCalls = <<>>
      /\ calls[c].trace = <<>>
      /\ WrapperWrites(c) = <<>>
      /\ calls[c].sink = calls[c].handlerWrote

(* An imperative call whose handler wrote its response and returned, with  *)
(* a callable logger and formatError configured.                            *)
C26_Witness ==
  \E c \in DOMAIN calls :
    /\ Succeeded(c)
    /\ Imperative(c)
    /\ options.logger = Fn("mockLogger")
    /\ options.formatError = Fn("formatError")
    /\ Len(calls[c].handlerWrote) = 2
    /\ calls[c].sink = calls[c].handlerWrote
    /\ calls[c].result = Fulfilled(Undefined)

(* C27: when formatError throws, its exception is reported through         *)
(* console.error, once, under 'formatError failed:', and not through the    *)
(* logger: a logger the options supplied is called exactly once in that     *)
(* call, with the value the handler threw, and never with the formatter's   *)
(* exception.                                                               *)
C27_FormatFailureReportedSeparately ==
  \A c \in DOMAIN calls :
    (Failed(c) /\ FormatterFailed(c)) =>
      /\ SelectSeq(calls[c].consoleCalls,
                   LAMBDA x : x.label = "formatError failed:") =
           <<[label |-> "formatError failed:",
              error |-> FormatterThrown(formatError(options))]>>
      /\ LoggerIsCallable(options.logger) =>
           /\ Len(calls[c].loggerCalls) = 1
           /\ calls[c].loggerCalls[1].fn = options.logger
           /\ calls[c].loggerCalls[1].error = Thrown(c)
      /\ \A k \in DOMAIN calls[c].loggerCalls :
           calls[c].loggerCalls[k].error # FormatterThrown(formatError(options))

C27_Witness ==
  \E c \in DOMAIN calls :
    /\ Failed(c)
    /\ FormatterFailed(c)
    /\ options.logger = Fn("mockLogger")
    /\ options.formatError = Fn("throwingFormatter")
    /\ calls[c].loggerCalls =
         <<[fn |-> Fn("mockLogger"), label |-> "Route Error:",
            error |-> Thrown(c)]>>
    /\ calls[c].consoleCalls =
         <<[label |-> "formatError failed:", error |-> FormatterException]>>
    /\ calls[c].result.state = "fulfilled"

(* How many of the wrapper's steps of a call are the step named step. *)
StepCount(c, step) ==
  Len(SelectSeq(calls[c].trace, LAMBDA x : x = step))

(* C28: a call of the wrapped handler invokes the original handler exactly *)
(* once and handles at most one failure: in every step, a call that has     *)
(* started has invoked the handler once, has produced at most one error     *)
(* response (one status and one json on the sink, or one Response, never    *)
(* both), and a call that is done stays as it is until the wrapped handler  *)
(* is called anew.                                                          *)
C28_OneWayNoRetry ==
  [][\A c \in DOMAIN calls :
       /\ calls'[c].pc # "idle" =>
            /\ calls'[c].handlerCalls = 1
            /\ StepCount(c, "res.status")' <= 1
            /\ StepCount(c, "json")' <= 1
            /\ StepCount(c, "new Response")' <= 1
            /\ StepCount(c, "json")' + StepCount(c, "new Response")' <= 1
            /\ StepCount(c, "logger")' <= 1
            /\ StepCount(c, "formatError")' <= 1
            /\ Len(WrapperWrites(c))' = 2 * StepCount(c, "json")'
       /\ calls[c].pc = "done" =>
            \/ calls'[c] = calls[c]
            \/ /\ calls'[c].pc = "running"
               /\ ncalls' = ncalls + 1
               /\ calls'[c].thrown = <<>>
               /\ calls'[c].sink = <<>>
       /\ (calls[c].pc = "running" /\ calls'[c].pc = "running") =>
            /\ calls'[c].handlerArgs = calls[c].handlerArgs
            /\ calls'[c].handlerCalls = calls[c].handlerCalls]_vars

(* A call that failed once and was answered once, with no call left to     *)
(* make.                                                                    *)
C28_Witness ==
  \E c \in DOMAIN calls :
    /\ Failed(c)
    /\ ncalls = MaxCalls
    /\ calls[c].handlerCalls = 1
    /\ StepCount(c, "res.status") = 1
    /\ StepCount(c, "json") = 1
    /\ Len(WrapperWrites(c)) = 2

(* C29: the original handler is called with the request alone when the    *)
(* wrapped handler's second argument is not a sink (absent, null, or an     *)
(* object without a status function, which is not handed on), and with the  *)
(* same request and the same sink when it is one.                           *)
C29_HandlerArguments ==
  \A c \in DOMAIN calls :
    calls[c].pc # "idle" =>
      LET req == calls[c].args[1]
          second == calls[c].args[2]
      IN IF second = Sink
         THEN calls[c].handlerArgs = <<req, Sink>>
         ELSE /\ second \in {Undefined, Null, Context}
              /\ calls[c].handlerArgs = <<req>>
              /\ \A k \in DOMAIN calls[c].handlerArgs :
                   calls[c].handlerArgs[k] # second

(* The App Router's context object was passed and not handed on. *)
C29_Witness ==
  \E c \in DOMAIN calls :
    /\ Done(c)
    /\ calls[c].args[2] = Context
    /\ calls[c].handlerArgs = <<calls[c].args[1]>>
    /\ calls[c].args[1].requestId = Str("12345")

(* The status code an outcome carries: the argument of the sink's status   *)
(* call, or the status of the returned Response; none when nothing was      *)
(* emitted.                                                                 *)
EmittedStatus(sink, result) ==
  IF sink # <<>> THEN <<sink[1].arg>>
  ELSE IF /\ result.state = "fulfilled"
          /\ result.value.t = "object"
          /\ "status" \in DOMAIN result.value
       THEN <<result.value.status>>
       ELSE <<>>

(* C30: the status code emitted for a failure does not depend on           *)
(* formatError: it is the one the same call emits with no formatError at    *)
(* all, whether the configured formatError is absent, not callable, returns *)
(* or throws; and when one is emitted it is the classified status code.     *)
C30_StatusIndependentOfFormatError ==
  \A c \in DOMAIN calls :
    Failed(c) =>
      LET without == CatchBlock([options EXCEPT !.formatError = Undefined],
                                calls[c].req, calls[c].res, Thrown(c))
          status == EmittedStatus(WrapperWrites(c), calls[c].result)
      IN /\ status = EmittedStatus(without.sink, without.result)
         /\ status # <<>> =>
              status = <<ClassifyStatusCode(options, Thrown(c))>>

(* A known error answered with its own status although formatError threw. *)
C30_Witness ==
  \E c \in DOMAIN calls :
    /\ Failed(c)
    /\ options.formatError = Fn("throwingFormatter")
    /\ FormatterFailed(c)
    /\ options.defaultStatusCode = Num(503)
    /\ Thrown(c) = NewPredefined("NotFoundError", Undefined)
    /\ EmittedStatus(WrapperWrites(c), calls[c].result) = <<Num(404)>>

=============================================================================
